---- MODULE Spec2Model ----
(***************************************************************************)
(* Batch extraction of bank statements (src/src/extract_batch.py):         *)
(* clean_amount, extract_account_info, extract_transactions and main().    *)
(*                                                                         *)
(* Python values are tagged records: None, NaN (pandas' missing value),    *)
(* str and float.  A float is kept as the shortest decimal that repr()     *)
(* prints: value = 0.dig * 10^decpt, dig without leading or trailing       *)
(* zeros ("0" for zero).  Strings are TLA+ strings, read character by      *)
(* character with SubSeq.                                                  *)
(***************************************************************************)
EXTENDS Integers, Sequences, FiniteSets, TLC

VARIABLES
    \* ---- main(): the batch run and the files under OUT_DIR
    pc, run, data_dir, pdf_files, idx, cur_acc,
    accounts, txns_list, failed, status, started,
    txns_df, log_file, accounts_csv, transactions_csv, failed_csv,
    \* ---- clean_amount applied to one input, then to its own result
    raw, once, twice,
    \* ---- extract_transactions applied to one table
    tbl, tstage, header_idx, headers, all_rows, rename_map, out_df

batchVars == <<pc, run, data_dir, pdf_files, idx, cur_acc, accounts, txns_list,
               failed, status, started, txns_df, log_file, accounts_csv,
               transactions_csv, failed_csv>>
amountVars == <<raw, once, twice>>
tableVars == <<tbl, tstage, header_idx, headers, all_rows, rename_map, out_df>>
vars == <<batchVars, amountVars, tableVars>>

-----------------------------------------------------------------------------
(* Python values *)

None == [t |-> "none"]
NaN == [t |-> "nan"]
Str(s) == [t |-> "str", v |-> s]
Float(neg, dig, decpt) == [t |-> "float", neg |-> neg, dig |-> dig, decpt |-> decpt]

IsNone(x) == x.t = "none"
IsStr(x) == x.t = "str"
IsFloat(x) == x.t = "float"

\* Python's == on the values clean_amount returns: -0.0 == 0.0.
PyEq(a, b) ==
    IF IsFloat(a) /\ IsFloat(b)
    THEN /\ a.dig = b.dig
         /\ a.decpt = b.decpt
         /\ (a.neg = b.neg \/ a.dig = "0")
    ELSE a = b

-----------------------------------------------------------------------------
(* Strings *)

Digits == {"0", "1", "2", "3", "4", "5", "6", "7", "8", "9"}
Upper == <<"A", "B", "C", "D", "E", "F", "G", "H", "I", "J", "K", "L", "M",
           "N", "O", "P", "Q", "R", "S", "T", "U", "V", "W", "X", "Y", "Z">>
LowerLetters == <<"a", "b", "c", "d", "e", "f", "g", "h", "i", "j", "k", "l", "m",
                  "n", "o", "p", "q", "r", "s", "t", "u", "v", "w", "x", "y", "z">>
Whitespace == {" ", "\t", "\n"}

Char(s, i) == SubSeq(s, i, i)
From(s, i) == SubSeq(s, i, Len(s))

LowerChar(c) ==
    IF \E k \in 1..26 : Upper[k] = c
    THEN LowerLetters[CHOOSE k \in 1..26 : Upper[k] = c]
    ELSE c

RECURSIVE ToLower(_)
ToLower(s) == IF s = "" THEN "" ELSE LowerChar(Char(s, 1)) \o ToLower(From(s, 2))

RECURSIVE LStrip(_)
LStrip(s) == IF s # "" /\ Char(s, 1) \in Whitespace THEN LStrip(From(s, 2)) ELSE s

RECURSIVE RStrip(_)
RStrip(s) ==
    IF s # "" /\ Char(s, Len(s)) \in Whitespace
    THEN RStrip(SubSeq(s, 1, Len(s) - 1))
    ELSE s

Strip(s) == RStrip(LStrip(s))

\* sub in s
Contains(s, sub) ==
    \E i \in 1..(Len(s) - Len(sub) + 1) : SubSeq(s, i, i + Len(sub) - 1) = sub

StartsWith(s, pre) == Len(s) >= Len(pre) /\ SubSeq(s, 1, Len(pre)) = pre

\* s with every character outside keep removed
RECURSIVE KeepChars(_, _)
KeepChars(s, keep) ==
    IF s = "" THEN ""
    ELSE (IF Char(s, 1) \in keep THEN Char(s, 1) ELSE "") \o KeepChars(From(s, 2), keep)

\* s.replace(c, "") for a single character c
RECURSIVE RemoveChar(_, _)
RemoveChar(s, c) ==
    IF s = "" THEN ""
    ELSE (IF Char(s, 1) = c THEN "" ELSE Char(s, 1)) \o RemoveChar(From(s, 2), c)

RECURSIVE Repeat(_, _)
Repeat(c, n) == IF n <= 0 THEN "" ELSE c \o Repeat(c, n - 1)

RECURSIVE StripLeadingZeros(_)
StripLeadingZeros(s) ==
    IF s # "" /\ Char(s, 1) = "0" THEN StripLeadingZeros(From(s, 2)) ELSE s

RECURSIVE StripTrailingZeros(_)
StripTrailingZeros(s) ==
    IF s # "" /\ Char(s, Len(s)) = "0"
    THEN StripTrailingZeros(SubSeq(s, 1, Len(s) - 1))
    ELSE s

IsDigits(s) == \A i \in 1..Len(s) : Char(s, i) \in Digits

RECURSIVE NatStr(_)
NatStr(n) ==
    IF n < 10 THEN Char("0123456789", n + 1)
    ELSE NatStr(n \div 10) \o Char("0123456789", (n % 10) + 1)

-----------------------------------------------------------------------------
(* float(x) and str(float) *)

\* Position of the first "." in s, or 0.
DotPos(s) ==
    IF \E i \in 1..Len(s) : Char(s, i) = "."
    THEN CHOOSE i \in 1..Len(s) :
            Char(s, i) = "." /\ \A j \in 1..(i - 1) : Char(s, j) # "."
    ELSE 0

\* float(s) for s over digits, "." and "-": [sign] digits [. [digits]] or
\* [sign] . digits; anything else is a ValueError.
Unsigned(s) == IF s # "" /\ Char(s, 1) = "-" THEN From(s, 2) ELSE s
IntPart(s) == IF DotPos(s) = 0 THEN s ELSE SubSeq(s, 1, DotPos(s) - 1)
FracPart(s) == IF DotPos(s) = 0 THEN "" ELSE From(s, DotPos(s) + 1)

FloatParses(s) ==
    LET u == Unsigned(s)
    IN  /\ IsDigits(IntPart(u))
        /\ IsDigits(FracPart(u))
        /\ IntPart(u) \o FracPart(u) # ""

ParseFloat(s) ==
    LET u == Unsigned(s)
        neg == s # "" /\ Char(s, 1) = "-"
        all == IntPart(u) \o FracPart(u)
        lead == StripLeadingZeros(all)
        dig == StripTrailingZeros(lead)
    IN  IF dig = "" THEN Float(neg, "0", 1)
        ELSE Float(neg, dig, Len(IntPart(u)) - (Len(all) - Len(lead)))

\* repr(float): fixed notation, or the exponent form when the value is below
\* 1e-4 (decpt <= -4) or at least 1e16 (decpt > 16).
FloatRepr(f) ==
    LET sign == IF f.neg THEN "-" ELSE ""
        n == Len(f.dig)
        e == f.decpt - 1
    IN  IF f.decpt <= -4 \/ f.decpt > 16
        THEN sign \o Char(f.dig, 1)
                  \o (IF n > 1 THEN "." \o From(f.dig, 2) ELSE "")
                  \o "e" \o (IF e < 0 THEN "-" ELSE "+")
                  \o (LET a == IF e < 0 THEN -e ELSE e
                      IN  IF a < 10 THEN "0" \o NatStr(a) ELSE NatStr(a))
        ELSE IF f.decpt <= 0
        THEN sign \o "0." \o Repeat("0", -f.decpt) \o f.dig
        ELSE IF f.decpt >= n
        THEN sign \o f.dig \o Repeat("0", f.decpt - n) \o ".0"
        ELSE sign \o SubSeq(f.dig, 1, f.decpt) \o "." \o From(f.dig, f.decpt + 1)

\* str(x)
PyStr(x) ==
    CASE x.t = "none" -> "None"
      [] x.t = "nan" -> "nan"
      [] x.t = "str" -> x.v
      [] x.t = "float" -> FloatRepr(x)

-----------------------------------------------------------------------------
(* clean_amount *)

AmountChars == Digits \cup {".", "-"}

clean_amount(x) ==
    IF IsNone(x) THEN None
    ELSE LET s == Strip(PyStr(x))
         IN  IF s = "" \/ ToLower(s) \in {"na", "nan", "-"} THEN None
             ELSE LET c == KeepChars(RemoveChar(s, ","), AmountChars)
                  IN  IF c \in {"", "-", "."} THEN None
                      ELSE IF FloatParses(c) THEN ParseFloat(c)
                      ELSE None

-----------------------------------------------------------------------------
(* clean_amount on bounded inputs, applied to an input and then to its    *)
(* own result                                                              *)

Unset == [t |-> "unset"]

MaxAmountLen == 6
AmountAlphabet == {"0", "1", ".", "-", ","}

RECURSIVE StringsUpTo(_, _)
StringsUpTo(alphabet, n) ==
    IF n = 0 THEN {""}
    ELSE LET shorter == StringsUpTo(alphabet, n - 1)
         IN  shorter \cup {s \o c : s \in shorter, c \in alphabet}

SampleAmounts ==
    {None, NaN, Float(FALSE, "12345", 4), Float(TRUE, "5", 0)}
    \cup {Str(s) : s \in {"1,234.50", "NA", "na", "NaN", " ", " - ", "500.00",
                          "4500.00 Cr", "Rs. 12", "(45.10)", "1e5", "abc"}}

AmountInputs ==
    SampleAmounts \cup {Str(s) : s \in StringsUpTo(AmountAlphabet, MaxAmountLen)}

AmountIdle == raw = Unset /\ once = Unset /\ twice = Unset

InitAmount ==
    /\ raw \in AmountInputs
    /\ once = Unset
    /\ twice = Unset

Normalize ==
    /\ raw # Unset
    /\ once = Unset
    /\ once' = clean_amount(raw)
    /\ UNCHANGED <<raw, twice>>

NormalizeAgain ==
    /\ once # Unset
    /\ twice = Unset
    /\ twice' = clean_amount(once)
    /\ UNCHANGED <<raw, once>>

-----------------------------------------------------------------------------
(* extract_transactions: one table                                         *)
(*                                                                         *)
(* A cell is None or Str(s), a row a sequence of cells, a table a sequence *)
(* of rows.  Row and column indices are 0-based as in the code.            *)

Min(a, b) == IF a < b THEN a ELSE b
Max(a, b) == IF a > b THEN a ELSE b

\* str(c or "")
CellText(c) == IF IsNone(c) THEN "" ELSE PyStr(c)

RECURSIVE JoinSpace(_)
JoinSpace(texts) ==
    IF texts = <<>> THEN ""
    ELSE IF Len(texts) = 1 THEN texts[1]
    ELSE texts[1] \o " " \o JoinSpace(Tail(texts))

\* " ".join([str(c or "") for c in row]).lower()
Joined(row) == ToLower(JoinSpace([j \in 1..Len(row) |-> CellText(row[j])]))

IsHeaderRow(row) ==
    /\ Contains(Joined(row), "date")
    /\ Contains(Joined(row), "narration")
    /\ Contains(Joined(row), "balance")

ScanRows == 5

\* Variant: the loop without its break, so the last matching row wins.
HeaderIdxLast(t) ==
    IF Len(t) < 2 THEN -1
    ELSE LET hits == {i \in 0..(Min(ScanRows, Len(t)) - 1) : IsHeaderRow(t[i + 1])}
         IN  IF hits = {} THEN -1
             ELSE CHOOSE i \in hits : \A k \in hits : i >= k

\* header_idx of the loop over tbl[:5]; -1 stands for Python's None, also
\* for a table the code skips before the loop (empty, or fewer than 2 rows).
HeaderIdx(t) ==
    IF Len(t) < 2 THEN -1
    ELSE LET hits == {i \in 0..(Min(ScanRows, Len(t)) - 1) : IsHeaderRow(t[i + 1])}
         IN  IF hits = {} THEN -1
             ELSE CHOOSE i \in hits : \A k \in hits : i <= k

\* re.sub(r"\s+", " ", s)
RECURSIVE CollapseSpace(_)
CollapseSpace(s) ==
    IF s = "" THEN ""
    ELSE IF Char(s, 1) \in Whitespace
    THEN " " \o CollapseSpace(LStrip(s))
    ELSE Char(s, 1) \o CollapseSpace(From(s, 2))

\* s.replace(old, new)
RECURSIVE Replace(_, _, _)
Replace(s, old, new) ==
    IF s = "" THEN ""
    ELSE IF StartsWith(s, old)
    THEN new \o Replace(From(s, Len(old) + 1), old, new)
    ELSE Char(s, 1) \o Replace(From(s, 2), old, new)

NormalizeHeader(h) ==
    Replace(CollapseSpace(ToLower(Strip(CellText(h)))), "transaction type", "type")

Headers(t, hidx) == [j \in 1..Len(t[hidx + 1]) |-> NormalizeHeader(t[hidx + 1][j])]

\* Variant: any() in place of all(), so one empty cell discards the row.
IsBlankRowAny(row) ==
    \/ row = <<>>
    \/ \E j \in 1..Len(row) : IsNone(row[j]) \/ Strip(PyStr(row[j])) = ""

\* not row or all(c is None or str(c).strip() == "" for c in row)
IsBlankRow(row) ==
    \/ row = <<>>
    \/ \A j \in 1..Len(row) : IsNone(row[j]) \/ Strip(PyStr(row[j])) = ""

\* A dict is a sequence of [k, v] items in insertion order, keys unique.
DictHas(d, k) == \E n \in 1..Len(d) : d[n].k = k
DictGet(d, k) == d[CHOOSE n \in 1..Len(d) : d[n].k = k].v
DictSet(d, k, v) ==
    IF DictHas(d, k)
    THEN [n \in 1..Len(d) |-> IF d[n].k = k THEN [k |-> k, v |-> v] ELSE d[n]]
    ELSE Append(d, [k |-> k, v |-> v])
DictKeys(d) == [n \in 1..Len(d) |-> d[n].k]

\* rec of one data row: the loop over range(max(len(headers), len(row)))
RECURSIVE RecUpTo(_, _, _)
RecUpTo(hs, row, n) ==
    IF n = 0 THEN <<>>
    ELSE LET j == n - 1
             key == IF j < Len(hs) THEN hs[j + 1] ELSE "col" \o NatStr(j)
             val == IF j < Len(row) THEN row[j + 1] ELSE None
         IN  DictSet(RecUpTo(hs, row, j), key, val)

MakeRec(hs, row) == RecUpTo(hs, row, Max(Len(hs), Len(row)))

\* The records of one table, in row order.  src = <<document, page, table,
\* row>> is where the row was found (history only; no column of the output).
RECURSIVE TableRecsFrom(_, _, _, _)
TableRecsFrom(t, hs, r, at) ==
    IF r > Len(t) THEN <<>>
    ELSE (IF IsBlankRow(t[r]) THEN <<>>
          ELSE <<[rec |-> MakeRec(hs, t[r]), src |-> Append(at, r - 1)]>>)
         \o TableRecsFrom(t, hs, r + 1, at)

TableRecs(t, at) ==
    LET hidx == HeaderIdx(t)
    IN  IF hidx = -1 THEN <<>>
        ELSE TableRecsFrom(t, Headers(t, hidx), hidx + 2, at)

-----------------------------------------------------------------------------
(* extract_transactions: the frame of all records and its canonical form   *)
(*                                                                         *)
(* A frame is [columns, rows]; a row is [vals, src] with vals aligned to   *)
(* columns.  Column labels may repeat after the rename.                    *)

SeqContains(q, x) == \E n \in 1..Len(q) : q[n] = x

RECURSIVE AppendNew(_, _)
AppendNew(cols, keys) ==
    IF keys = <<>> THEN cols
    ELSE AppendNew(IF SeqContains(cols, Head(keys)) THEN cols
                   ELSE Append(cols, Head(keys)),
                   Tail(keys))

\* Columns of pd.DataFrame(list of dicts): the keys in order of first appearance.
RECURSIVE UnionKeys(_)
UnionKeys(recs) ==
    IF recs = <<>> THEN <<>>
    ELSE AppendNew(UnionKeys(SubSeq(recs, 1, Len(recs) - 1)),
                   DictKeys(recs[Len(recs)].rec))

\* pd.DataFrame(all_rows): a key a record lacks is NaN in its row.
DataFrame(recs) ==
    LET cols == UnionKeys(recs)
    IN  [columns |-> cols,
         rows |-> [n \in 1..Len(recs) |->
                     [vals |-> [c \in 1..Len(cols) |->
                                  IF DictHas(recs[n].rec, cols[c])
                                  THEN DictGet(recs[n].rec, cols[c])
                                  ELSE NaN],
                      src |-> recs[n].src]]]

EmptyFrame == [columns |-> <<>>, rows |-> <<>>]

\* df.empty
IsEmpty(df) == Len(df.rows) = 0 \/ Len(df.columns) = 0

CanonicalColumns ==
    <<"txn_date", "narration", "reference", "dr_cr", "debit", "credit", "balance">>
AmountColumns == {"debit", "credit", "balance"}
TextColumns == {"txn_date", "narration", "reference", "dr_cr"}

\* Variant: the amount branches ahead of the "type" branch.
RenameRuleAmountsFirst(cl) ==
    IF StartsWith(cl, "date") THEN "txn_date"
    ELSE IF Contains(cl, "narration") \/ Contains(cl, "description") THEN "narration"
    ELSE IF Contains(cl, "reference") \/ cl = "ref" THEN "reference"
    ELSE IF Contains(cl, "debit") THEN "debit"
    ELSE IF Contains(cl, "credit") THEN "credit"
    ELSE IF Contains(cl, "balance") THEN "balance"
    ELSE IF Contains(cl, "type") THEN "dr_cr"
    ELSE ""

\* The if/elif chain that fills rename_map, on cl = c.lower(); "" when no
\* branch is taken (c gets no entry).
RenameRule(cl) ==
    IF StartsWith(cl, "date") THEN "txn_date"
    ELSE IF Contains(cl, "narration") \/ Contains(cl, "description") THEN "narration"
    ELSE IF Contains(cl, "reference") \/ cl = "ref" THEN "reference"
    ELSE IF Contains(cl, "type") THEN "dr_cr"
    ELSE IF Contains(cl, "debit") THEN "debit"
    ELSE IF Contains(cl, "credit") THEN "credit"
    ELSE IF Contains(cl, "balance") THEN "balance"
    ELSE ""

\* rename_map: an entry for every column one of the branches takes
RECURSIVE RenameMap(_)
RenameMap(cols) ==
    IF cols = <<>> THEN <<>>
    ELSE LET c == cols[Len(cols)]
             m == RenameMap(SubSeq(cols, 1, Len(cols) - 1))
         IN  IF RenameRule(ToLower(c)) = "" THEN m
             ELSE DictSet(m, c, RenameRule(ToLower(c)))

\* df.rename(columns=rename_map): the new label of column c
Renamed(m, c) == IF DictHas(m, c) THEN DictGet(m, c) ELSE c

\* keep = [c for c in CanonicalColumns if c in df.columns]
Keep(cols) == SelectSeq(CanonicalColumns, LAMBDA c : SeqContains(cols, c))

\* Positions (1-based) of the columns df[keep] selects: for each label of
\* keep in turn, every column carrying it.
RECURSIVE PositionsOf(_, _, _)
PositionsOf(cols, label, n) ==
    IF n > Len(cols) THEN <<>>
    ELSE (IF cols[n] = label THEN <<n>> ELSE <<>>) \o PositionsOf(cols, label, n + 1)

RECURSIVE KeptPositions(_, _)
KeptPositions(cols, keep) ==
    IF keep = <<>> THEN <<>>
    ELSE PositionsOf(cols, Head(keep), 1) \o KeptPositions(cols, Tail(keep))

\* df[c] is a frame, not a column, when the label c repeats: assigning the
\* result of .apply back, and .str on it, raise.
HasDuplicate(cols) ==
    \E a, b \in 1..Len(cols) : a # b /\ cols[a] = cols[b]

\* One value of the final frame: clean_amount for an amount column,
\* astype(str).str.strip() for a text column.
FinalValue(label, v) ==
    IF label \in AmountColumns THEN clean_amount(v)
    ELSE Str(Strip(PyStr(v)))

\* Lines 113-150 on the records collected from all tables.
Canonicalize(recs) ==
    LET df == DataFrame(recs)
        renamed == [c \in 1..Len(df.columns) |->
                      Renamed(RenameMap(df.columns), df.columns[c])]
        pos == KeptPositions(renamed, Keep(renamed))
        cols == [c \in 1..Len(pos) |-> renamed[pos[c]]]
    IN  IF IsEmpty(df) THEN [raised |-> FALSE, df |-> EmptyFrame]
        ELSE IF HasDuplicate(cols) THEN [raised |-> TRUE, df |-> EmptyFrame]
        ELSE [raised |-> FALSE,
              df |-> [columns |-> cols,
                      rows |-> [n \in 1..Len(df.rows) |->
                                  [vals |-> [c \in 1..Len(pos) |->
                                               FinalValue(cols[c], df.rows[n].vals[pos[c]])],
                                   src |-> df.rows[n].src]]]]

-----------------------------------------------------------------------------
(* extract_transactions on one bounded table, step by step                 *)

Cells(texts) == [j \in 1..Len(texts) |-> Str(texts[j])]

RECURSIVE SeqsUpTo(_, _)
SeqsUpTo(S, n) ==
    IF n = 0 THEN {<<>>}
    ELSE LET shorter == SeqsUpTo(S, n - 1)
         IN  shorter \cup {Append(q, x) : q \in shorter, x \in S}

BaseHeader == Cells(<<"Txn Date", "Narration", "Running Balance">>)
DataRow == Cells(<<"01-04-2023", "UPI/XYZ/Payment", "4,500.00", "Cr">>)
NarrationOnlyRow == <<None, Str("ATM WDL"), Str("")>>
BlankRow == <<None, Str(""), Str("  ")>>

RowCatalogue == {BaseHeader, DataRow, BlankRow}
MaxRows == 6

ExtraLabels ==
    {None} \cup
    {Str(l) : l \in {"Date", "Value Date", "Description", "Reference No", "Ref",
                     "Ref No", "Transaction  Type", "Debit/Credit Type", "Debit",
                     "Credit", "Withdrawal", "txn_date", "dr_cr"}}
MaxExtra == 1
LongDataRow ==
    Cells(<<"02-04-2023", "NEFT/ABC", "1,000.50", "x1", "x2", "x3", "x4">>)

SampleTables ==
    { <<>>,
      <<BaseHeader>>,
      <<Cells(<<"Date", "Amount">>), Cells(<<"01-04-2023", "500.00">>)>>,
      <<Cells(<<"Date", "Narration", "Debit", "Credit", "Balance">>),
        Cells(<<"01-04-2023", "UPI/XYZ/Payment", "500.00", "", "4500.00">>)>>,
      <<Cells(<<"DATE", "narration balance">>), <<>>, DataRow>>,
      <<BaseHeader, NarrationOnlyRow, BlankRow, DataRow>>,
      <<NarrationOnlyRow, NarrationOnlyRow, BaseHeader, NarrationOnlyRow>>,
      <<Cells(<<"Da", "te", "Narration", "Balance">>), DataRow>> }

TableInputs ==
    SampleTables
    \cup SeqsUpTo(RowCatalogue, MaxRows)
    \cup {<<BaseHeader \o extra, LongDataRow>> : extra \in SeqsUpTo(ExtraLabels, MaxExtra)}

NoResult == [raised |-> FALSE, df |-> EmptyFrame]

TableIdle ==
    /\ tbl = <<>>
    /\ tstage = "idle"
    /\ header_idx = -1
    /\ headers = <<>>
    /\ all_rows = <<>>
    /\ rename_map = <<>>
    /\ out_df = NoResult

InitTable ==
    /\ tbl \in TableInputs
    /\ tstage = "input"
    /\ header_idx = -1
    /\ headers = <<>>
    /\ all_rows = <<>>
    /\ rename_map = <<>>
    /\ out_df = NoResult

\* Lines 88-101: skip or find the header row and normalise its labels.
DetectHeader ==
    /\ tstage = "input"
    /\ header_idx' = HeaderIdx(tbl)
    /\ headers' = IF HeaderIdx(tbl) = -1 THEN <<>> ELSE Headers(tbl, HeaderIdx(tbl))
    /\ tstage' = "header"
    /\ UNCHANGED <<tbl, all_rows, rename_map, out_df>>

\* Lines 103-111: one record per row after the header that is not blank.
Materialize ==
    /\ tstage = "header"
    /\ all_rows' = IF header_idx = -1 THEN <<>>
                   ELSE TableRecsFrom(tbl, headers, header_idx + 2, <<0, 0, 0>>)
    /\ tstage' = "rows"
    /\ UNCHANGED <<tbl, header_idx, headers, rename_map, out_df>>

\* Lines 113-150.
Finalize ==
    /\ tstage = "rows"
    /\ rename_map' = RenameMap(DataFrame(all_rows).columns)
    /\ out_df' = Canonicalize(all_rows)
    /\ tstage' = "done"
    /\ UNCHANGED <<tbl, header_idx, headers, all_rows>>

-----------------------------------------------------------------------------
(* Documents                                                               *)
(*                                                                         *)
(* A document is [readable, found, pages]: whether pdfplumber can open it, *)
(* what the patterns of extract_account_info capture in the text of its    *)
(* first two pages (None, or <<>> for a pattern with several groups, when  *)
(* the pattern does not match), and the tables of every page.              *)

NoMatches ==
    [account_number |-> None, holder_name |-> None, customer_id |-> <<>>,
     ifsc_code |-> None, branch |-> None, period |-> <<>>]

\* The end-to-end example: one table, two data rows around a blank one.
DocSimple ==
    [readable |-> TRUE,
     found |-> [account_number |-> Str("123456789012"),
                holder_name |-> Str("RAVI KUMAR Customer ID: 4455"),
                customer_id |-> <<Str("Customer ID"), Str("4455")>>,
                ifsc_code |-> Str("UTIB0000123"),
                branch |-> Str("MG ROAD  Statement Period: 01-04-2023 to 30-04-2023"),
                period |-> <<Str("01-04-2023"), Str("30-04-2023")>>],
     pages |-> << << <<Cells(<<"Date", "Narration", "Debit", "Credit", "Balance">>),
                       Cells(<<"01-04-2023", "UPI/XYZ/Payment", "500.00", "", "4500.00">>),
                       BlankRow,
                       Cells(<<"02-04-2023", "ATM WDL", "", "", "">>)>> >> >>]

\* A file pdfplumber cannot open.
DocCorrupt == [readable |-> FALSE, found |-> NoMatches, pages |-> <<>>]

\* No account number in the text; tables on two pages, two on the first,
\* with other columns than DocSimple's.
DocTwoPages ==
    [readable |-> TRUE,
     found |-> [NoMatches EXCEPT !.holder_name = Str(" MEENA S "),
                                 !.customer_id = <<Str("CIF"), Str("778899")>>],
     pages |-> << << <<Cells(<<"Date", "Amount">>), Cells(<<"01-05-2023", "10.00">>)>>,
                     <<BaseHeader, DataRow, NarrationOnlyRow>>,
                     <<Cells(<<"Date", "Narration", "Transaction Type", "Running Balance">>),
                       Cells(<<"03-05-2023", "NEFT/ABC", "DR", "1,000.50">>)>> >>,
                  << <<BaseHeader, DataRow>> >> >>]

\* Two header labels that both become "narration".
DocTwoNarrations ==
    [readable |-> TRUE,
     found |-> [NoMatches EXCEPT !.account_number = Str("555500001111")],
     pages |-> << << <<Cells(<<"Date", "Narration", "Description", "Balance">>),
                       Cells(<<"04-04-2023", "POS", "CARD", "10.00">>)>> >> >>]

\* A readable statement without any transaction table.
DocNoTables ==
    [readable |-> TRUE,
     found |-> [NoMatches EXCEPT !.account_number = Str("900000000001")],
     pages |-> << <<>>, << <<Cells(<<"Date", "Amount">>), Cells(<<"x", "1">>)>> >> >>]

DocKinds == <<DocSimple, DocCorrupt, DocTwoPages, DocTwoNarrations, DocNoTables>>

MaxDocs == 5
Docs == 1..MaxDocs

\* The file stmt_<d>.pdf and what it holds.
Name(d) == "stmt_" \o NatStr(d) \o ".pdf"
Content(d) == DocKinds[((d - 1) % Len(DocKinds)) + 1]

-----------------------------------------------------------------------------
(* extract_account_info                                                    *)

\* s.split(sep)[0]
RECURSIVE Before(_, _)
Before(s, sep) ==
    IF s = "" \/ StartsWith(s, sep) THEN ""
    ELSE Char(s, 1) \o Before(From(s, 2), sep)

\* m.group(1).strip() if m else None
Grab1(m) == IF IsNone(m) THEN None ELSE Str(Strip(m.v))

\* m.groups()[-1].strip(), None without a match
GrabLast(groups) ==
    IF groups = <<>> THEN None ELSE Str(Strip(groups[Len(groups)].v))

CutAt(v, word) == IF IsNone(v) \/ v.v = "" THEN v ELSE Str(Strip(Before(v.v, word)))

AccountColumns ==
    <<"pdf_file", "account_number", "holder_name", "customer_id", "ifsc_code",
      "branch", "period_from", "period_to">>

\* The info dict, keys in insertion order.
AccountInfo(d) ==
    LET f == Content(d).found
        item(k, v) == [k |-> k, v |-> v]
    IN  << item("pdf_file", Str(Name(d))),
           item("account_number", Grab1(f.account_number)),
           item("holder_name", CutAt(Grab1(f.holder_name), "Customer")),
           item("customer_id", GrabLast(f.customer_id)),
           item("ifsc_code", Grab1(f.ifsc_code)),
           item("branch", CutAt(Grab1(f.branch), "Statement")),
           item("period_from", IF f.period = <<>> THEN None ELSE Str(Strip(f.period[1].v))),
           item("period_to", IF f.period = <<>> THEN None ELSE Str(Strip(f.period[2].v))) >>

\* Evaluated once per file: the documents do not change.
AccountInfoOf == [d \in Docs |-> AccountInfo(d)]
extract_account_info(d) == AccountInfoOf[d]

-----------------------------------------------------------------------------
(* extract_transactions on a document                                      *)

\* The loops over pdf.pages and over the tables of a page.
RECURSIVE PageRecs(_, _, _, _)
PageRecs(tables, d, p, k) ==
    IF k > Len(tables) THEN <<>>
    ELSE TableRecs(tables[k], <<d, p - 1, k - 1>>) \o PageRecs(tables, d, p, k + 1)

RECURSIVE AllRows(_, _)
AllRows(d, p) ==
    IF p > Len(Content(d).pages) THEN <<>>
    ELSE PageRecs(Content(d).pages[p], d, p, 1) \o AllRows(d, p + 1)

TransactionsOf == [d \in Docs |-> Canonicalize(AllRows(d, 1))]
extract_transactions(d) == TransactionsOf[d]

-----------------------------------------------------------------------------
(* main(): helpers                                                         *)

\* Character order of the file names (ASCII: "." < digits < "_" < letters).
CharOrder == "." \o "0123456789" \o "_" \o "abcdefghijklmnopqrstuvwxyz"
Ord(c) == CHOOSE n \in 1..Len(CharOrder) : Char(CharOrder, n) = c

RECURSIVE LexLess(_, _)
LexLess(a, b) ==
    IF b = "" THEN FALSE
    ELSE IF a = "" THEN TRUE
    ELSE IF Char(a, 1) = Char(b, 1) THEN LexLess(From(a, 2), From(b, 2))
    ELSE Ord(Char(a, 1)) < Ord(Char(b, 1))

\* sorted(PDF_DIR.glob("*.pdf"))
RECURSIVE Sorted(_)
Sorted(S) ==
    IF S = {} THEN <<>>
    ELSE LET first == CHOOSE d \in S : \A e \in S \ {d} : LexLess(Name(d), Name(e))
         IN  <<first>> \o Sorted(S \ {first})

BatchCap == 100

\* sorted(...)[:100]
SortedOf == [dir \in SUBSET Docs |-> Sorted(dir)]
ListPdfs(dir) == SubSeq(SortedOf[dir], 1, Min(BatchCap, Cardinality(dir)))

\* Variant: the account number looked up under a key the dict does not
\* have, so that acc.get returns None.
StampWithoutAccount(df, name, account_number) ==
    [columns |-> <<"pdf_file", "account_number">> \o df.columns,
     rows |-> [n \in 1..Len(df.rows) |->
                 [vals |-> <<Str(name), None>> \o df.rows[n].vals,
                  src |-> df.rows[n].src]]]

\* txns.insert(0, "pdf_file", ...); txns.insert(1, "account_number", ...)
Stamp(df, name, account_number) ==
    [columns |-> <<"pdf_file", "account_number">> \o df.columns,
     rows |-> [n \in 1..Len(df.rows) |->
                 [vals |-> <<Str(name), account_number>> \o df.rows[n].vals,
                  src |-> df.rows[n].src]]]

ColumnPos(cols, c) == CHOOSE n \in 1..Len(cols) : cols[n] = c

RECURSIVE ConcatColumns(_)
ConcatColumns(frames) ==
    IF frames = <<>> THEN <<>>
    ELSE AppendNew(ConcatColumns(SubSeq(frames, 1, Len(frames) - 1)),
                   frames[Len(frames)].columns)

Realign(df, cols) ==
    [n \in 1..Len(df.rows) |->
       [vals |-> [c \in 1..Len(cols) |->
                    IF SeqContains(df.columns, cols[c])
                    THEN df.rows[n].vals[ColumnPos(df.columns, cols[c])]
                    ELSE NaN],
        src |-> df.rows[n].src]]

RECURSIVE ConcatRows(_, _)
ConcatRows(frames, cols) ==
    IF frames = <<>> THEN <<>>
    ELSE Realign(Head(frames), cols) \o ConcatRows(Tail(frames), cols)

\* Variant: the frames concatenated last first.
RECURSIVE Reversed(_)
Reversed(q) == IF q = <<>> THEN <<>> ELSE Append(Reversed(Tail(q)), Head(q))

ConcatLastFirst(frames) ==
    IF frames = <<>> THEN EmptyFrame
    ELSE [columns |-> ConcatColumns(Reversed(frames)),
          rows |-> ConcatRows(Reversed(frames), ConcatColumns(Reversed(frames)))]

\* pd.concat(txns_list, ignore_index=True) if txns_list else pd.DataFrame()
Concat(frames) ==
    IF frames = <<>> THEN EmptyFrame
    ELSE [columns |-> ConcatColumns(frames),
          rows |-> ConcatRows(frames, ConcatColumns(frames))]

\* pd.DataFrame(accounts) and pd.DataFrame(failed)
DictFrame(dicts) == DataFrame([n \in 1..Len(dicts) |-> [rec |-> dicts[n], src |-> <<>>]])

\* One field of a CSV line: a missing value is written as the empty field.
CsvField(v) == IF v.t \in {"none", "nan"} THEN "" ELSE PyStr(v)

NoFile == [exists |-> FALSE, header |-> <<>>, lines |-> <<>>]

\* df.to_csv(path, index=False): the header line, then one line per row.
ToCsv(df) ==
    [exists |-> TRUE,
     header |-> df.columns,
     lines |-> [n \in 1..Len(df.rows) |->
                  [c \in 1..Len(df.columns) |-> CsvField(df.rows[n].vals[c])]]]

\* One line of run_log.txt, without its time stamp.
LogLine(ev, i, n, text) == [ev |-> ev, i |-> i, n |-> n, text |-> text]

\* str(e) of the exception each failure raises.
OpenError == "No /Root object! - Is this really a PDF?"
FrameError == "'DataFrame' object has no attribute 'str'"

FailureEntry(d, error) ==
    <<[k |-> "pdf_file", v |-> Str(Name(d))], [k |-> "error", v |-> Str(error)]>>

-----------------------------------------------------------------------------
(* main()                                                                  *)
(*                                                                         *)
(* pc is the position in main: "idle" before the first run, "loop" at the  *)
(* top of the for loop, "account" and "transactions" inside the try block, *)
(* "done" after main returned.  status and started record, per document of *)
(* the run, its processing state and how often its extraction started.     *)

MaxRuns == 2

CurDoc == pdf_files[idx]
NoStatus == [d \in Docs |-> "NONE"]
NotStarted == [d \in Docs |-> 0]

BatchIdle ==
    /\ pc = "idle"
    /\ run = 0
    /\ data_dir = {}
    /\ pdf_files = <<>>
    /\ idx = 0
    /\ cur_acc = <<>>
    /\ accounts = <<>>
    /\ txns_list = <<>>
    /\ failed = <<>>
    /\ status = NoStatus
    /\ started = NotStarted
    /\ txns_df = EmptyFrame
    /\ log_file = <<>>
    /\ accounts_csv = NoFile
    /\ transactions_csv = NoFile
    /\ failed_csv = NoFile

\* Lines 155-160: the log is reset, the data folder holds no PDF, main returns.
RunNoPdfs ==
    /\ pc \in {"idle", "done"}
    /\ run < MaxRuns
    /\ run' = run + 1
    /\ data_dir' = {}
    /\ pdf_files' = ListPdfs({})
    /\ log_file' = <<LogLine("NO_PDFS", 0, 0, "")>>
    /\ idx' = 0
    /\ cur_acc' = <<>>
    /\ accounts' = <<>>
    /\ txns_list' = <<>>
    /\ failed' = <<>>
    /\ status' = NoStatus
    /\ started' = NotStarted
    /\ txns_df' = EmptyFrame
    /\ pc' = "done"
    /\ UNCHANGED <<accounts_csv, transactions_csv, failed_csv>>

\* Lines 155-166: the log is reset, the PDFs are listed, the collections are empty.
RunStart ==
    /\ pc \in {"idle", "done"}
    /\ run < MaxRuns
    /\ \E dir \in (SUBSET Docs) \ {{}} :
          /\ data_dir' = dir
          /\ pdf_files' = ListPdfs(dir)
          /\ log_file' = <<LogLine("FOUND", 0, Len(ListPdfs(dir)), "")>>
          /\ status' = [d \in Docs |->
                          IF SeqContains(ListPdfs(dir), d) THEN "PENDING" ELSE "NONE"]
    /\ run' = run + 1
    /\ idx' = 1
    /\ cur_acc' = <<>>
    /\ accounts' = <<>>
    /\ txns_list' = <<>>
    /\ failed' = <<>>
    /\ started' = NotStarted
    /\ txns_df' = EmptyFrame
    /\ pc' = "loop"
    /\ UNCHANGED <<accounts_csv, transactions_csv, failed_csv>>

\* Lines 168-171: the next document enters the try block.
BeginDoc ==
    /\ pc = "loop"
    /\ idx <= Len(pdf_files)
    /\ log_file' = Append(log_file, LogLine("START", idx, Len(pdf_files), Name(CurDoc)))
    /\ status' = [status EXCEPT ![CurDoc] = "EXTRACTING"]
    /\ started' = [started EXCEPT ![CurDoc] = @ + 1]
    /\ pc' = "account"
    /\ UNCHANGED <<run, data_dir, pdf_files, idx, cur_acc, accounts, txns_list, failed,
                   txns_df, accounts_csv, transactions_csv, failed_csv>>

\* Variant: the try block around the whole loop, so that the first failure
\* ends it.
ExceptEndsLoop(error) ==
    /\ failed' = Append(failed, FailureEntry(CurDoc, error))
    /\ log_file' = Append(log_file, LogLine("FAIL", idx, Len(pdf_files),
                                            Name(CurDoc) \o " | " \o error))
    /\ status' = [status EXCEPT ![CurDoc] = "FAILED"]
    /\ idx' = Len(pdf_files) + 1
    /\ pc' = "loop"

\* Lines 183-185: the except block, then the next iteration.
Except(error) ==
    /\ failed' = Append(failed, FailureEntry(CurDoc, error))
    /\ log_file' = Append(log_file, LogLine("FAIL", idx, Len(pdf_files),
                                            Name(CurDoc) \o " | " \o error))
    /\ status' = [status EXCEPT ![CurDoc] = "FAILED"]
    /\ idx' = idx + 1
    /\ pc' = "loop"

\* Lines 172-173: extract_account_info returns and its dict is appended.
AccountOk ==
    /\ pc = "account"
    /\ Content(CurDoc).readable
    /\ cur_acc' = extract_account_info(CurDoc)
    /\ accounts' = Append(accounts, extract_account_info(CurDoc))
    /\ pc' = "transactions"
    /\ UNCHANGED <<run, data_dir, pdf_files, idx, txns_list, failed, status, started,
                   txns_df, log_file, accounts_csv, transactions_csv, failed_csv>>

\* Line 172 raises: pdfplumber.open fails in extract_account_info.
AccountFail ==
    /\ pc = "account"
    /\ ~Content(CurDoc).readable
    /\ Except(OpenError)
    /\ UNCHANGED <<run, data_dir, pdf_files, cur_acc, accounts, txns_list, started,
                   txns_df, accounts_csv, transactions_csv, failed_csv>>

\* Lines 175-181: extract_transactions returns; a non-empty frame is stamped
\* and appended.
TxnsOk ==
    /\ pc = "transactions"
    /\ ~extract_transactions(CurDoc).raised
    /\ LET txns == extract_transactions(CurDoc).df
       IN  /\ txns_list' =
                IF IsEmpty(txns) THEN txns_list
                ELSE Append(txns_list,
                            Stamp(txns, Name(CurDoc), DictGet(cur_acc, "account_number")))
           /\ log_file' = Append(log_file,
                                 LogLine("DONE", idx, Len(pdf_files), NatStr(Len(txns.rows))))
    /\ status' = [status EXCEPT ![CurDoc] = "SUCCEEDED"]
    /\ idx' = idx + 1
    /\ pc' = "loop"
    /\ UNCHANGED <<run, data_dir, pdf_files, cur_acc, accounts, failed, started,
                   txns_df, accounts_csv, transactions_csv, failed_csv>>

\* Line 175 raises, after line 173 has appended the account.
TxnsFail ==
    /\ pc = "transactions"
    /\ extract_transactions(CurDoc).raised
    /\ Except(FrameError)
    /\ UNCHANGED <<run, data_dir, pdf_files, cur_acc, accounts, txns_list, started,
                   txns_df, accounts_csv, transactions_csv, failed_csv>>

\* Lines 187-198: both tables are written; the failure ledger only if a
\* document failed.
Finish ==
    /\ pc = "loop"
    /\ idx > Len(pdf_files)
    /\ txns_df' = Concat(txns_list)
    /\ accounts_csv' = ToCsv(DictFrame(accounts))
    /\ transactions_csv' = ToCsv(Concat(txns_list))
    /\ failed_csv' = IF failed # <<>> THEN ToCsv(DictFrame(failed)) ELSE failed_csv
    /\ log_file' = log_file
          \o <<LogLine("SAVED", 0, 0, ""),
               LogLine("COUNTS", Len(accounts), Len(Concat(txns_list).rows), "")>>
          \o (IF failed # <<>> THEN <<LogLine("SOME_FAILED", Len(failed), 0, "")>>
              ELSE <<>>)
    /\ pc' = "done"
    /\ UNCHANGED <<run, data_dir, pdf_files, idx, cur_acc, accounts, txns_list, failed,
                   status, started>>

-----------------------------------------------------------------------------
(* Specifications *)

Init == BatchIdle /\ AmountIdle /\ TableIdle

Next ==
    \/ RunNoPdfs /\ UNCHANGED <<amountVars, tableVars>>
    \/ RunStart /\ UNCHANGED <<amountVars, tableVars>>
    \/ BeginDoc /\ UNCHANGED <<amountVars, tableVars>>
    \/ AccountOk /\ UNCHANGED <<amountVars, tableVars>>
    \/ AccountFail /\ UNCHANGED <<amountVars, tableVars>>
    \/ TxnsOk /\ UNCHANGED <<amountVars, tableVars>>
    \/ TxnsFail /\ UNCHANGED <<amountVars, tableVars>>
    \/ Finish /\ UNCHANGED <<amountVars, tableVars>>

Spec == Init /\ [][Next]_vars

\* main runs to its end once started: the loop is sequential and nothing in
\* it waits, so while main is running its position keeps advancing (every
\* step of main changes pc).
Running == {"loop", "account", "transactions"}
Advance == pc \in Running /\ pc' \in Running \cup {"done"} /\ pc' # pc
FairSpec == Spec /\ WF_pc(Advance)

InitA == BatchIdle /\ InitAmount /\ TableIdle
NextA ==
    \/ Normalize /\ UNCHANGED <<batchVars, tableVars>>
    \/ NormalizeAgain /\ UNCHANGED <<batchVars, tableVars>>
SpecAmount == InitA /\ [][NextA]_vars

InitT == BatchIdle /\ AmountIdle /\ InitTable
NextT ==
    \/ DetectHeader /\ UNCHANGED <<batchVars, amountVars>>
    \/ Materialize /\ UNCHANGED <<batchVars, amountVars>>
    \/ Finalize /\ UNCHANGED <<batchVars, amountVars>>
SpecTable == InitT /\ [][NextT]_vars

-----------------------------------------------------------------------------
(* Properties of main()                                                    *)

Range(q) == {q[n] : n \in 1..Len(q)}

\* The pdf_file fields of the lines of a written table, in line order.
CsvNames(file) ==
    IF SeqContains(file.header, "pdf_file")
    THEN [n \in 1..Len(file.lines) |-> file.lines[n][ColumnPos(file.header, "pdf_file")]]
    ELSE <<>>

RunCompleted == pc = "done" /\ pdf_files # <<>>
FailedDocs == {d \in Docs : status[d] = "FAILED"}
SucceededDocs == {d \in Docs : status[d] = "SUCCEEDED"}
FailedNames == [n \in 1..Len(failed) |-> DictGet(failed[n], "pdf_file").v]

\* C1: a document whose processing raised, in extract_account_info or in
\* extract_transactions, has at the end of the run no row in the accounts
\* table and none in the transactions table, and is in the failure ledger.
C1_FailedDocumentExcluded ==
    RunCompleted =>
        \A d \in FailedDocs :
            /\ Name(d) \notin Range(CsvNames(accounts_csv))
            /\ Name(d) \notin Range(CsvNames(transactions_csv))
            /\ Name(d) \in Range(CsvNames(failed_csv))

\* A status changes only along PENDING -> EXTRACTING -> {SUCCEEDED, FAILED}.
StatusMoves ==
    {<<"PENDING", "EXTRACTING">>, <<"EXTRACTING", "SUCCEEDED">>, <<"EXTRACTING", "FAILED">>}

LifecycleStep ==
    run' = run =>
        \A d \in Docs : status'[d] # status[d] => <<status[d], status'[d]>> \in StatusMoves

LifecycleAtEnd ==
    /\ \A d \in Docs : started[d] <= 1
    /\ RunCompleted =>
          /\ \A d \in Range(pdf_files) :
                status[d] \in {"SUCCEEDED", "FAILED"} /\ started[d] = 1
          /\ Len(failed) = Cardinality(FailedDocs)
          /\ Range(FailedNames) = {Name(d) : d \in FailedDocs}
          /\ Range(FailedNames) \cap {Name(d) : d \in SucceededDocs} = {}

\* C2: in a run over a non-empty document list every document goes through
\* PENDING -> EXTRACTING once and ends SUCCEEDED or FAILED, without retry; a
\* failing document does not stop the later ones (a started run reaches its
\* end with every document terminal); the failures list holds one entry per
\* FAILED document and none for a SUCCEEDED one.
C2_EveryDocumentTerminates ==
    /\ []LifecycleAtEnd
    /\ [][LifecycleStep]_vars
    /\ \A d \in Docs : (status[d] = "PENDING") ~> (status[d] \in {"SUCCEEDED", "FAILED"})

\* A run in which a document failed before the last one, which succeeded.
C2_Witness ==
    /\ RunCompleted
    /\ \E a, b \in 1..Len(pdf_files) :
          a < b /\ status[pdf_files[a]] = "FAILED" /\ status[pdf_files[b]] = "SUCCEEDED"

\* <<page, table, row>> of a before that of b
RECURSIVE TupleLess(_, _)
TupleLess(a, b) ==
    IF a = <<>> \/ b = <<>> THEN FALSE
    ELSE Head(a) < Head(b) \/ (Head(a) = Head(b) /\ TupleLess(Tail(a), Tail(b)))

Position(d) == CHOOSE n \in 1..Len(pdf_files) : pdf_files[n] = d

\* C3: the documents are processed in lexical order of their file names,
\* and of two rows of the batch-wide transactions table the earlier one is
\* from an earlier document or, in the same document, was found earlier
\* (page, then table, then row); the written table has the same row order.
C3_RowOrder ==
    /\ \A a, b \in 1..Len(pdf_files) :
          a < b => LexLess(Name(pdf_files[a]), Name(pdf_files[b]))
    /\ \A i, j \in 1..Len(txns_df.rows) :
          i < j =>
             LET ri == txns_df.rows[i].src
                 rj == txns_df.rows[j].src
             IN  \/ Position(ri[1]) < Position(rj[1])
                 \/ ri[1] = rj[1] /\ TupleLess(Tail(ri), Tail(rj))
    /\ RunCompleted =>
          CsvNames(transactions_csv) =
             [n \in 1..Len(txns_df.rows) |-> Name(txns_df.rows[n].src[1])]

\* A table with rows of two documents, one of them with rows of two pages.
C3_Witness ==
    /\ RunCompleted
    /\ \E i, j, k \in 1..Len(txns_df.rows) :
          /\ txns_df.rows[i].src[1] # txns_df.rows[j].src[1]
          /\ txns_df.rows[j].src[1] = txns_df.rows[k].src[1]
          /\ txns_df.rows[j].src[2] # txns_df.rows[k].src[2]

\* C4: after a run has completed, the lines of every written file are those
\* of that run's collections, also when the run found no document or had
\* no failure.
C4_OnlyLatestRun ==
    pc = "done" =>
        /\ accounts_csv.lines = ToCsv(DictFrame(accounts)).lines
        /\ transactions_csv.lines = ToCsv(txns_df).lines
        /\ failed_csv.lines = ToCsv(DictFrame(failed)).lines

\* C5: a collection that is empty at the end of a run is written as a table
\* with its column names and no data line.
C5_HeaderOnlyWhenEmpty ==
    RunCompleted =>
        /\ accounts = <<>> =>
              accounts_csv.header = AccountColumns /\ accounts_csv.lines = <<>>
        /\ txns_list = <<>> =>
              /\ transactions_csv.header = <<"pdf_file", "account_number">> \o CanonicalColumns
              /\ transactions_csv.lines = <<>>

AccountsNamed(name) ==
    {n \in 1..Len(accounts) : DictGet(accounts[n], "pdf_file") = Str(name)}

CsvField2(file, n, column) == file.lines[n][ColumnPos(file.header, column)]

\* C7: every row of the transactions table carries the file name of the
\* document it was found in and the account number of that document's
\* account record; in the written tables every transaction line matches
\* exactly one accounts line on pdf_file, with the same account_number.
C7_RowsReferenceTheirAccount ==
    /\ \A k \in 1..Len(txns_list) : \A n \in 1..Len(txns_list[k].rows) :
          LET row == txns_list[k].rows[n]
              name == Name(row.src[1])
          IN  /\ row.vals[ColumnPos(txns_list[k].columns, "pdf_file")] = Str(name)
              /\ Cardinality(AccountsNamed(name)) = 1
              /\ \A a \in AccountsNamed(name) :
                    row.vals[ColumnPos(txns_list[k].columns, "account_number")]
                       = DictGet(accounts[a], "account_number")
    /\ \A n \in 1..Len(transactions_csv.lines) :
          LET same == {a \in 1..Len(accounts_csv.lines) :
                          CsvField2(accounts_csv, a, "pdf_file")
                             = CsvField2(transactions_csv, n, "pdf_file")}
          IN  /\ Cardinality(same) = 1
              /\ \A a \in same :
                    CsvField2(accounts_csv, a, "account_number")
                       = CsvField2(transactions_csv, n, "account_number")

\* Written tables with the rows of a document with an account number and
\* of one without.
C7_Witness ==
    /\ RunCompleted
    /\ \E n, m \in 1..Len(transactions_csv.lines) :
          /\ CsvField2(transactions_csv, n, "account_number") = "123456789012"
          /\ CsvField2(transactions_csv, m, "account_number") = ""

-----------------------------------------------------------------------------
(* Properties of clean_amount                                              *)

\* C6: clean_amount is idempotent: applied to its own result, a number or
\* None, it returns that result.
C6_Idempotent == twice # Unset => PyEq(twice, once)

-----------------------------------------------------------------------------
(* Properties of extract_transactions on one table                         *)

HeaderDecided == tstage \in {"header", "rows", "done"}
Extracted == tstage = "done"

\* The rows among the first five whose text names a date, a narration and
\* a balance (0-based).
HeaderHits ==
    {i \in 0..4 : i < Len(tbl) /\ LET text == ToLower(JoinSpace([j \in 1..Len(tbl[i + 1]) |->
                                                             CellText(tbl[i + 1][j])]))
                                  IN  /\ Contains(text, "date")
                                      /\ Contains(text, "narration")
                                      /\ Contains(text, "balance")}

\* C8: in a table of at least two rows the header row is the lowest-index
\* row among the first five whose lower-cased, space-joined text contains
\* "date", "narration" and "balance"; a table without such a row, or with
\* fewer than two rows, yields no transaction row.
C8_HeaderDetection ==
    HeaderDecided =>
        /\ IF Len(tbl) >= 2 /\ HeaderHits # {}
           THEN header_idx \in HeaderHits /\ \A k \in HeaderHits : header_idx <= k
           ELSE header_idx = -1 /\ all_rows = <<>> /\ out_df.df.rows = <<>>
        /\ (Len(tbl) >= 2 /\ tbl[1] = BaseHeader) => header_idx = 0
        /\ (Len(tbl) >= 1 /\ tbl[1] = Cells(<<"Date", "Amount">>)) => header_idx = -1

\* A header found below the first row, with another header row after it.
C8_Witness ==
    /\ Extracted
    /\ header_idx >= 1
    /\ \E k \in HeaderHits : k > header_idx
    /\ Len(out_df.df.rows) >= 1

\* The rule table in priority order: <<test, word, canonical column>>.
RuleTable ==
    << <<"starts", "date", "txn_date">>,
       <<"contains", "narration", "narration">>,
       <<"contains", "description", "narration">>,
       <<"contains", "reference", "reference">>,
       <<"equals", "ref", "reference">>,
       <<"contains", "type", "dr_cr">>,
       <<"contains", "debit", "debit">>,
       <<"contains", "credit", "credit">>,
       <<"contains", "balance", "balance">> >>

RuleApplies(rule, label) ==
    CASE rule[1] = "starts" -> StartsWith(label, rule[2])
      [] rule[1] = "contains" -> Contains(label, rule[2])
      [] rule[1] = "equals" -> label = rule[2]

\* The column of the first rule that applies, "" when none does.
FirstMatch(label) ==
    LET hits == {n \in 1..Len(RuleTable) : RuleApplies(RuleTable[n], label)}
    IN  IF hits = {} THEN ""
        ELSE RuleTable[CHOOSE n \in hits : \A m \in hits : n <= m][3]

RawColumns == UnionKeys(all_rows)

RulesInPriorityOrder ==
    /\ \A c \in Range(RawColumns) :
          IF FirstMatch(c) = "" THEN ~DictHas(rename_map, c)
          ELSE DictHas(rename_map, c) /\ DictGet(rename_map, c) = FirstMatch(c)
    /\ SeqContains(RawColumns, "debit/credit type") =>
          DictGet(rename_map, "debit/credit type") = "dr_cr"
    /\ Range(out_df.df.columns) \subseteq Range(CanonicalColumns)

\* C9 as stated: the rules apply in priority order, first match wins, and a
\* label that matches no rule is dropped.
C9_UnmatchedLabelsDropped ==
    Extracted =>
        /\ RulesInPriorityOrder
        /\ \A c \in Range(RawColumns) :
              FirstMatch(c) = "" => ~SeqContains(out_df.df.columns, c)

\* The labels that are canonical column names and match no rule.
LiteralCanonical == {c \in Range(CanonicalColumns) : FirstMatch(c) = ""}

\* C9, amended: the rules apply in priority order, first match wins
\* ("debit/credit type" becomes dr_cr); a label that matches no rule is
\* dropped unless it is itself a canonical column name ("txn_date" or
\* "dr_cr"), which stays as that column.
C9_RulePriority ==
    Extracted =>
        /\ RulesInPriorityOrder
        /\ LiteralCanonical = {"txn_date", "dr_cr"}
        /\ \A c \in Range(RawColumns) :
              (FirstMatch(c) = "" /\ c \notin LiteralCanonical)
                 => ~SeqContains(out_df.df.columns, c)
        /\ ~out_df.raised =>
              Range(out_df.df.columns) =
                 {FirstMatch(c) : c \in {x \in Range(RawColumns) : FirstMatch(x) # ""}}
                 \cup (Range(RawColumns) \cap LiteralCanonical)

\* "debit/credit type" became dr_cr, no debit or credit column came of it,
\* and the unmatched "txn date" and the overflow columns were dropped.
C9_Witness ==
    /\ Extracted
    /\ ~out_df.raised
    /\ SeqContains(RawColumns, "debit/credit type")
    /\ SeqContains(RawColumns, "txn date")
    /\ SeqContains(RawColumns, "col4")
    /\ out_df.df.columns = <<"narration", "dr_cr", "balance">>

NonBlank(row) == \E j \in 1..Len(row) : ~IsNone(row[j]) /\ Strip(row[j].v) # ""

\* The rows after the header with a non-empty cell (1-based).
DataRows == {r \in (header_idx + 2)..Len(tbl) : header_idx # -1 /\ NonBlank(tbl[r])}

AllAmountsAbsent(df, n) ==
    \A c \in 1..Len(df.columns) :
        df.columns[c] \in AmountColumns => df.rows[n].vals[c] \in {None, NaN}

\* C10: of the rows after the header, each with a non-empty cell yields
\* one output row and each blank one none, in the same order, also when
\* every amount of the row is absent: the row count of a table extracted
\* without error is the number of its non-blank rows after the header.
C10_RowFiltering ==
    (Extracted /\ ~out_df.raised) =>
        /\ Len(out_df.df.rows) = Cardinality(DataRows)
        /\ {out_df.df.rows[n].src[4] + 1 : n \in 1..Len(out_df.df.rows)} = DataRows
        /\ \A n, m \in 1..Len(out_df.df.rows) :
              n < m => out_df.df.rows[n].src[4] < out_df.df.rows[m].src[4]

\* A blank row was left out and a row without any amount was kept.
C10_Witness ==
    /\ Extracted
    /\ ~out_df.raised
    /\ \E r \in (header_idx + 2)..Len(tbl) : ~NonBlank(tbl[r])
    /\ \E n \in 1..Len(out_df.df.rows) : AllAmountsAbsent(out_df.df, n)
    /\ \E n \in 1..Len(out_df.df.rows) : ~AllAmountsAbsent(out_df.df, n)

====
